---- MODULE Spec2Model ----
(***************************************************************************)
(* Model of scraper.py: main drives one browser session through            *)
(* get_products (page loop, readiness wait, per-node field extraction,     *)
(* download_image) and save_to_csv, and closes the session in finally.     *)
(*                                                                         *)
(* Strings are sequences of one-character strings, so that strip, split,   *)
(* slicing, the filename filter and the decimal rendering of the sequence  *)
(* index are computed as the code computes them.                           *)
(***************************************************************************)
EXTENDS Integers, Sequences, FiniteSets, TLC

VARIABLES
    pc,         \* position of main / get_products
    driver,     \* "none" (driver = None), "open", "closed" (driver.quit() ran)
    quitCalls,  \* number of driver.quit() calls
    raised,     \* an exception reached main's except clause
    page,       \* loop variable of get_products
    items,      \* result of find_elements for the current page
    pos,        \* 1-based position of the for-item loop in items
    products,   \* the list get_products accumulates
    origin,     \* history: origin[i] = <<page, position, node>> of products[i]
    skipped,    \* history: <<page, position, node>> left by the outer except
    navLog,     \* history: page indexes passed to driver.get, in order
    timedOut,   \* history: pages whose readiness wait raised TimeoutException
    calls,      \* history: download_image calls made by get_products
    files,      \* names of files created in the images directory by this run
    sinkCalls,  \* number of save_to_csv calls
    csv         \* "absent", or the rows written to the csv file

vars == <<pc, driver, quitCalls, raised, page, items, pos, products, origin,
          skipped, navLog, timedOut, calls, files, sinkCalls, csv>>

(***************************************************************************)
(* Bounds and program constants                                            *)
(***************************************************************************)
MaxItems == 2        \* most listing nodes find_elements returns for a page
MaxPrior == 1        \* NodeSpec: most records already in products
Pages == 2           \* main: get_products(driver, keyword, pages=2)
TitleCut == 30       \* title[:30]

(***************************************************************************)
(* Strings                                                                 *)
(***************************************************************************)
None == <<"None">>                   \* Python None
NoElem == <<"NoSuchElement">>        \* find_element raises NoSuchElementException
NA == <<"N", "/", "A">>              \* the literal "N/A"
Product == <<"p", "r", "o", "d", "u", "c", "t">>
Digits == <<"0", "1", "2", "3", "4", "5", "6", "7", "8", "9">>
Letters == {"a", "b", "c", "d", "g", "j", "o", "p", "r", "t", "u", "x", "N", "A"}

Min(a, b) == IF a < b THEN a ELSE b

\* str.isalnum() of one character
IsAlnum(c) == c \in Letters \/ \E i \in 1..10 : Digits[i] = c

\* str(n) for n >= 0
RECURSIVE Str(_)
Str(n) == IF n < 10 THEN <<Digits[n + 1]>>
          ELSE Str(n \div 10) \o <<Digits[(n % 10) + 1]>>

\* str.rstrip(): trailing whitespace removed
RECURSIVE RStrip(_)
RStrip(s) == IF s # <<>> /\ s[Len(s)] = " " THEN RStrip(SubSeq(s, 1, Len(s) - 1))
             ELSE s

RECURSIVE LStrip(_)
LStrip(s) == IF s # <<>> /\ s[1] = " " THEN LStrip(Tail(s)) ELSE s

\* str.strip()
Strip(s) == LStrip(RStrip(s))

\* s.split(' ')[0]: what precedes the first space
Split0(s) ==
    LET sp == {i \in 1..Len(s) : s[i] = " "}
    IN  IF sp = {} THEN s
        ELSE SubSeq(s, 1, (CHOOSE i \in sp : \A j \in sp : i <= j) - 1)

\* s[:n]
Slice(s, n) == SubSeq(s, 1, Min(n, Len(s)))

\* bool(u) of a str-or-None
Truthy(u) == u # None /\ u # <<>>

(***************************************************************************)
(* download_image                                                          *)
(***************************************************************************)
Jpg == <<".", "j", "p", "g">>

\* What requests.get and the file write can do for a given url:
\*   "ok"        status 200, body written
\*   "non200"    a response whose status is not 200
\*   "error"     requests.get raises (timeout, transport error)
\*   "writefail" status 200, the file is opened, then streaming or writing raises
HttpOutcomes == {"ok", "non200", "error", "writefail"}

KeptChar(c) == IsAlnum(c) \/ c \in {" ", ".", "_"}

\* download_image opening the file before it looks at the status
download_image_OpenFirst(url, filename, h) ==
    IF ~Truthy(url)
    THEN [exc |-> FALSE, ret |-> None, net |-> 0, created |-> {}]
    ELSE IF h = "error"
    THEN [exc |-> FALSE, ret |-> None, net |-> 1, created |-> {}]
    ELSE IF h = "ok"
    THEN [exc |-> FALSE, ret |-> RStrip(SelectSeq(filename, KeptChar)) \o Jpg,
          net |-> 1, created |-> {RStrip(SelectSeq(filename, KeptChar)) \o Jpg}]
    ELSE [exc |-> FALSE, ret |-> None, net |-> 1,
          created |-> {RStrip(SelectSeq(filename, KeptChar)) \o Jpg}]

\* "".join([c for c in filename if c.isalnum() or c in (' ', '.', '_')]).rstrip()
CleanFilename(filename) == RStrip(SelectSeq(filename, KeptChar))

\* download_image(url, folder, filename) under outcome h.
\*   exc: an exception leaves the function; ret: the returned value;
\*   net: requests.get calls made; created: names of the files opened for writing
download_image(url, filename, h) ==
    IF ~Truthy(url)
    THEN [exc |-> FALSE, ret |-> None, net |-> 0, created |-> {}]
    ELSE IF h = "error"
    THEN [exc |-> FALSE, ret |-> None, net |-> 1, created |-> {}]
    ELSE IF h = "non200"
    THEN [exc |-> FALSE, ret |-> None, net |-> 1, created |-> {}]
    ELSE IF h = "writefail"
    THEN [exc |-> FALSE, ret |-> None, net |-> 1,
          created |-> {CleanFilename(filename) \o Jpg}]
    ELSE [exc |-> FALSE, ret |-> CleanFilename(filename) \o Jpg, net |-> 1,
          created |-> {CleanFilename(filename) \o Jpg}]

(***************************************************************************)
(* The body of the for-item loop of get_products                           *)
(***************************************************************************)
\* A listing node as the browser presents it:
\*   title, whole, frac: the element's text, or NoElem
\*   rating: innerHTML of span.a-icon-alt as get_attribute returns it (a string
\*           or None), or NoElem
\*   img:    src of img.s-image as get_attribute returns it (a string or None),
\*           or NoElem
\*   stale:  the handle is stale when the node is read: find_element raises
\*           StaleElementReferenceException

ExtractTitle(item) == IF item.title = NoElem THEN NA ELSE Strip(item.title)

\* a price built from the whole element alone when the fraction is missing
ExtractPrice_Partial(item) ==
    IF item.whole = NoElem THEN NA
    ELSE IF item.frac = NoElem THEN <<"$">> \o item.whole \o <<".">>
    ELSE <<"$">> \o item.whole \o <<".">> \o item.frac

ExtractPrice(item) ==
    IF item.whole = NoElem \/ item.frac = NoElem THEN NA
    ELSE <<"$">> \o item.whole \o <<".">> \o item.frac

\* raises AttributeError when get_attribute returned None
RatingRaises(item) == item.rating = None

ExtractRating(item) == IF item.rating = NoElem THEN NA ELSE Split0(item.rating)

\* a placeholder url when the node has no image element
ExtractImageUrl_Placeholder(item) ==
    IF item.img = NoElem THEN <<"u", ":", "/", "x">> ELSE item.img

ExtractImageUrl(item) == IF item.img = NoElem THEN None ELSE item.img

\* the filename without the sequence index
FilenameArg_NoIndex(title, prods) ==
    (IF title # NA THEN Slice(title, TitleCut) ELSE Product) \o <<"_">> \o Str(0)

\* f"{safe_title}_{len(products)}"
FilenameArg(title, prods) ==
    (IF title # NA THEN Slice(title, TitleCut) ELSE Product)
        \o <<"_">> \o Str(Len(prods))

NoRecord == [title |-> None, price |-> None, rating |-> None, image_filename |-> None]

\* One pass of the try block for node item with prods accumulated so far.
\*   exc: an exception reached the outer except (the node is skipped)
\*   rec: the dict appended to products (when ~exc)
\*   call: the download_image calls made, as a sequence
ExtractNode(item, prods, h) ==
    IF item.stale \/ RatingRaises(item)
    THEN [exc |-> TRUE, rec |-> NoRecord, call |-> <<>>]
    ELSE
    LET title == ExtractTitle(item)
        price == ExtractPrice(item)
        rating == ExtractRating(item)
        image_url == ExtractImageUrl(item)
        arg == FilenameArg(title, prods)
        dl == download_image(image_url, arg, h)
    IN  IF Truthy(image_url)
        THEN [exc |-> dl.exc,
              rec |-> [title |-> title, price |-> price, rating |-> rating,
                       image_filename |-> dl.ret],
              call |-> <<[url |-> image_url, name |-> arg, at |-> Len(prods),
                          h |-> h, exc |-> dl.exc, ret |-> dl.ret, net |-> dl.net,
                          created |-> dl.created]>>]
        ELSE [exc |-> FALSE,
              rec |-> [title |-> title, price |-> price, rating |-> rating,
                       image_filename |-> NA],
              call |-> <<>>]

(***************************************************************************)
(* Inputs: the listing nodes the browser can present                       *)
(***************************************************************************)
ShortTitle == <<" ", "a", "/", "b", " ">>
LongTitle == [i \in 1..(TitleCut + 1) |-> IF i <= TitleCut THEN "a" ELSE "x"]
Whole == <<"1", "2">>
Fraction == <<"9", "9">>
RatingHtml == <<"4", ".", "5", " ", "o", "u", "t">>
Url == <<"u", ":", "/", "a">>

AllNodes ==
    [title : {NoElem, ShortTitle, LongTitle},
     whole : {NoElem, Whole},
     frac : {NoElem, Fraction},
     rating : {NoElem, None, RatingHtml},
     img : {NoElem, None, <<>>, Url},
     stale : BOOLEAN]

FullNode == [title |-> ShortTitle, whole |-> Whole, frac |-> Fraction,
             rating |-> RatingHtml, img |-> Url, stale |-> FALSE]
BareNode == [title |-> NoElem, whole |-> NoElem, frac |-> NoElem,
             rating |-> NoElem, img |-> NoElem, stale |-> FALSE]
StaleNode == [FullNode EXCEPT !.stale = TRUE]

\* the nodes of a whole run: one with all four sources, one with none, one
\* whose extraction raises
RunNodes == {FullNode, BareNode, StaleNode}

NodeSeqs == UNION {[1..n -> RunNodes] : n \in 0..MaxItems}

(***************************************************************************)
(* main and get_products                                                   *)
(***************************************************************************)
Init ==
    /\ pc = "setup"
    /\ driver = "none"
    /\ quitCalls = 0
    /\ raised = FALSE
    /\ page = 1
    /\ items = <<>>
    /\ pos = 1
    /\ products = <<>>
    /\ origin = <<>>
    /\ skipped = <<>>
    /\ navLog = <<>>
    /\ timedOut = {}
    /\ calls = <<>>
    /\ files = {}
    /\ sinkCalls = 0
    /\ csv = [state |-> "absent", rows |-> <<>>]

\* for page in range(1, pages + 1): the loop goes on with page p or ends
LoopPc(p) == IF p <= Pages THEN "nav" ELSE "save"

\* break in place of continue
TimeoutNext_Break(p) == <<p + 1, "save">>

\* except TimeoutException: ... continue, on page p: <<next page, next pc>>
TimeoutNext(p) == <<p + 1, LoopPc(p + 1)>>

\* the for-item loop ended by the first node that raises
ItemErrorNext_Break(p, i, n) == <<p + 1, LoopPc(p + 1)>>

\* except Exception: ... continue, at node i of the n nodes of page p:
\* <<next page, next pc>>
ItemErrorNext(p, i, n) == IF i = n THEN <<p + 1, LoopPc(p + 1)>> ELSE <<p, "item">>

\* the record put at the front of the list
AppendRecord_Front(prods, rec) == <<rec>> \o prods

\* products.append(rec)
AppendRecord(prods, rec) == Append(prods, rec)

\* an exception leaves get_products and reaches main's except clause
Propagate ==
    /\ raised' = TRUE
    /\ pc' = "finally"

\* driver = setup_driver(headless=True); products = []
SetupDriver ==
    /\ pc = "setup"
    /\ \E ok \in BOOLEAN :
        IF ok
        THEN /\ driver' = "open"
             /\ pc' = LoopPc(1)
             /\ UNCHANGED raised
        ELSE /\ Propagate
             /\ UNCHANGED driver
    /\ UNCHANGED <<quitCalls, page, items, pos, products, origin, skipped,
                   navLog, timedOut, calls, files, sinkCalls, csv>>

\* driver.get(url)
Navigate ==
    /\ pc = "nav"
    /\ navLog' = Append(navLog, page)
    /\ \E ok \in BOOLEAN :
        IF ok
        THEN /\ pc' = "wait"
             /\ UNCHANGED raised
        ELSE Propagate
    /\ UNCHANGED <<driver, quitCalls, page, items, pos, products, origin,
                   skipped, timedOut, calls, files, sinkCalls, csv>>

\* wait.until(presence_of_element_located(...)) inside try/except TimeoutException
WaitReady ==
    /\ pc = "wait"
    /\ \E r \in {"present", "timeout", "error"} :
        CASE r = "present" ->
                /\ pc' = "find"
                /\ UNCHANGED <<raised, page, timedOut>>
          [] r = "timeout" ->
                /\ timedOut' = timedOut \cup {page}
                /\ page' = TimeoutNext(page)[1]
                /\ pc' = TimeoutNext(page)[2]
                /\ UNCHANGED raised
          [] r = "error" ->
                /\ Propagate
                /\ UNCHANGED <<page, timedOut>>
    /\ UNCHANGED <<driver, quitCalls, items, pos, products, origin, skipped,
                   navLog, calls, files, sinkCalls, csv>>

\* items = driver.find_elements(...)
FindElements ==
    /\ pc = "find"
    /\ \E ok \in BOOLEAN, its \in NodeSeqs :
        IF ok
        THEN /\ items' = its
             /\ pos' = 1
             /\ page' = IF its = <<>> THEN page + 1 ELSE page
             /\ pc' = IF its = <<>> THEN LoopPc(page + 1) ELSE "item"
             /\ UNCHANGED raised
        ELSE /\ Propagate
             /\ UNCHANGED <<items, pos, page>>
    /\ UNCHANGED <<driver, quitCalls, products, origin, skipped, navLog,
                   timedOut, calls, files, sinkCalls, csv>>

\* one iteration of for item in items
ExtractItem ==
    /\ pc = "item"
    /\ \E h \in HttpOutcomes :
        LET r == ExtractNode(items[pos], products, h)
        IN  /\ IF r.exc
               THEN /\ skipped' = Append(skipped, <<page, pos, items[pos]>>)
                    /\ page' = ItemErrorNext(page, pos, Len(items))[1]
                    /\ pc' = ItemErrorNext(page, pos, Len(items))[2]
                    /\ UNCHANGED <<products, origin>>
               ELSE /\ products' = AppendRecord(products, r.rec)
                    /\ origin' = Append(origin, <<page, pos, items[pos]>>)
                    /\ page' = IF pos = Len(items) THEN page + 1 ELSE page
                    /\ pc' = IF pos = Len(items) THEN LoopPc(page + 1) ELSE "item"
                    /\ UNCHANGED skipped
            /\ calls' = calls \o [i \in 1..Len(r.call) |->
                                    [page |-> page, pos |-> pos, c |-> r.call[i]]]
            /\ files' = files \cup UNION {r.call[i].created : i \in 1..Len(r.call)}
    /\ pos' = pos + 1
    /\ UNCHANGED <<driver, quitCalls, raised, items, navLog, timedOut,
                   sinkCalls, csv>>

(***************************************************************************)
(* save_to_csv                                                             *)
(***************************************************************************)
Header == <<"title", "price", "rating", "image_filename">>

\* csv.DictWriter writes None as the empty string
CsvCell(v) == IF v = None THEN <<>> ELSE v

CsvRow(rec) == <<CsvCell(rec.title), CsvCell(rec.price), CsvCell(rec.rating),
                 CsvCell(rec.image_filename)>>

SaveToCsv ==
    /\ pc = "save"
    /\ sinkCalls' = sinkCalls + 1
    /\ IF products = <<>>
       THEN UNCHANGED csv
       ELSE \E ok \in BOOLEAN :
               csv' = IF ok
                      THEN [state |-> "written",
                            rows |-> [i \in 1..Len(products) |-> CsvRow(products[i])]]
                      ELSE [state |-> "failed", rows |-> <<>>]
    /\ pc' = "finally"
    /\ UNCHANGED <<driver, quitCalls, raised, page, items, pos, products,
                   origin, skipped, navLog, timedOut, calls, files>>

\* driver.quit() as the last statement of the try block
Finally_AfterSuccess ==
    /\ pc = "finally"
    /\ IF driver = "open" /\ ~raised
       THEN /\ driver' = "closed"
            /\ quitCalls' = quitCalls + 1
       ELSE UNCHANGED <<driver, quitCalls>>
    /\ pc' = "done"
    /\ UNCHANGED <<raised, page, items, pos, products, origin, skipped,
                   navLog, timedOut, calls, files, sinkCalls, csv>>

\* finally: if driver: driver.quit()
Finally ==
    /\ pc = "finally"
    /\ IF driver = "open"
       THEN /\ driver' = "closed"
            /\ quitCalls' = quitCalls + 1
       ELSE UNCHANGED <<driver, quitCalls>>
    /\ pc' = "done"
    /\ UNCHANGED <<raised, page, items, pos, products, origin, skipped,
                   navLog, timedOut, calls, files, sinkCalls, csv>>

Next ==
    \/ SetupDriver
    \/ Navigate
    \/ WaitReady
    \/ FindElements
    \/ ExtractItem
    \/ SaveToCsv
    \/ Finally

Spec == Init /\ [][Next]_vars

(***************************************************************************)
(* One node: the loop body applied to any node, after k earlier nodes of   *)
(* the same page that had none of the four elements                        *)
(***************************************************************************)
BareRecord == [title |-> NA, price |-> NA, rating |-> NA, image_filename |-> NA]

NodeInit ==
    \E k \in 0..MaxPrior, n \in AllNodes :
        /\ pc = "item"
        /\ driver = "open"
        /\ quitCalls = 0
        /\ raised = FALSE
        /\ page = 1
        /\ items = [i \in 1..(k + 1) |-> IF i <= k THEN BareNode ELSE n]
        /\ pos = k + 1
        /\ products = [i \in 1..k |-> BareRecord]
        /\ origin = [i \in 1..k |-> <<1, i, BareNode>>]
        /\ skipped = <<>>
        /\ navLog = <<1>>
        /\ timedOut = {}
        /\ calls = <<>>
        /\ files = {}
        /\ sinkCalls = 0
        /\ csv = [state |-> "absent", rows |-> <<>>]

NodeNext == ExtractItem

NodeSpec == NodeInit /\ [][NodeNext]_vars

(***************************************************************************)
(* download_image called directly, up to MaxFetch times                    *)
(***************************************************************************)
MaxFetch == 2

FetchUrls == {None, <<>>, Url}
FetchNames == {<<"a", "/", "b", "_", "0">>, <<"a", ".", " ", "_", "1", " ">>,
               <<"/", " ">>}

FetchInit ==
    /\ pc = "fetch"
    /\ driver = "none"
    /\ quitCalls = 0
    /\ raised = FALSE
    /\ page = 1
    /\ items = <<>>
    /\ pos = 1
    /\ products = <<>>
    /\ origin = <<>>
    /\ skipped = <<>>
    /\ navLog = <<>>
    /\ timedOut = {}
    /\ calls = <<>>
    /\ files = {}
    /\ sinkCalls = 0
    /\ csv = [state |-> "absent", rows |-> <<>>]

Fetch ==
    /\ pc = "fetch"
    /\ Len(calls) < MaxFetch
    /\ \E url \in FetchUrls, name \in FetchNames, h \in HttpOutcomes :
        LET dl == download_image(url, name, h)
        IN  /\ calls' = Append(calls,
                    [page |-> 0, pos |-> 0,
                     c |-> [url |-> url, name |-> name, at |-> 0, h |-> h,
                            exc |-> dl.exc, ret |-> dl.ret, net |-> dl.net,
                            created |-> dl.created]])
            /\ files' = files \cup dl.created
    /\ UNCHANGED <<pc, driver, quitCalls, raised, page, items, pos, products,
                   origin, skipped, navLog, timedOut, sinkCalls, csv>>

FetchSpec == FetchInit /\ [][Fetch]_vars

(***************************************************************************)
(* Properties                                                              *)
(***************************************************************************)
\* the nodes the for-item loop has finished with, as <<page, position, node>>
Processed == {origin[i] : i \in 1..Len(origin)} \cup {skipped[i] : i \in 1..Len(skipped)}

RecordsOf(p, i) == {k \in 1..Len(origin) : origin[k][1] = p /\ origin[k][2] = i}

CallsOf(p, i) == {k \in 1..Len(calls) : calls[k].page = p /\ calls[k].pos = i}

\* the source of a field is absent in node n
TitleAbsent(n) == n.title = NoElem
PriceAbsent(n) == n.whole = NoElem \/ n.frac = NoElem
RatingAbsent(n) == n.rating = NoElem \/ n.rating = None
ImageAbsent(n) == n.img = NoElem \/ n.img = None \/ n.img = <<>>

\* record rec holds, field by field, the sentinel or the value extracted from n
FieldsOf(rec, n) ==
    /\ DOMAIN rec = {"title", "price", "rating", "image_filename"}
    /\ rec.title = IF TitleAbsent(n) THEN NA ELSE Strip(n.title)
    /\ rec.price = IF PriceAbsent(n) THEN NA
                   ELSE <<"$">> \o n.whole \o <<".">> \o n.frac
    /\ rec.rating = IF RatingAbsent(n) THEN NA ELSE Split0(n.rating)
    /\ IF ImageAbsent(n) THEN rec.image_filename = NA
       ELSE rec.image_filename # NA

\* C1: every node whose handle stays valid gets exactly one record, with all
\* four keys, each absent field holding its sentinel and each present field its
\* extracted value, whatever subset of the four sources is absent.
C1_FieldIndependence ==
    \A t \in Processed :
        ~t[3].stale =>
            /\ Cardinality(RecordsOf(t[1], t[2])) = 1
            /\ \A k \in RecordsOf(t[1], t[2]) : FieldsOf(products[k], t[3])

\* C2: a page whose readiness wait timed out contributes no record, is
\* navigated to once only, and the next page is navigated to and processed.
C2_TimeoutSkipsPage ==
    \A k \in timedOut :
        /\ \A i \in 1..Len(origin) : origin[i][1] # k
        /\ \A i \in 1..Len(skipped) : skipped[i][1] # k
        /\ Cardinality({i \in 1..Len(navLog) : navLog[i] = k}) = 1
        /\ k < Pages =>
              \/ pc = "nav" /\ page = k + 1
              \/ \E i \in 1..Len(navLog) : navLog[i] = k + 1

C2_Witness ==
    /\ 1 \in timedOut
    /\ \E i \in 1..Len(origin) : origin[i][1] = 2
    /\ pc = "done"

\* C3: the ResultSet is always in page-then-position order, one record per
\* node that yielded one, and each step only appends at its end.
PageThenPosition ==
    /\ Len(origin) = Len(products)
    /\ \A i, j \in 1..Len(origin) :
          i < j => \/ origin[i][1] < origin[j][1]
                   \/ origin[i][1] = origin[j][1] /\ origin[i][2] < origin[j][2]

AppendOnly ==
    \/ products' = products
    \/ /\ Len(products') = Len(products) + 1
       /\ SubSeq(products', 1, Len(products)) = products
       /\ origin'[Len(origin')] = <<page, pos, items[pos]>>

C3_DiscoveryOrder == [](PageThenPosition) /\ [][AppendOnly]_vars

\* the same product on two pages gives two equal records, both kept
C3_Witness ==
    \E i, j \in 1..Len(products) :
        /\ i < j
        /\ origin[i][1] < origin[j][1]
        /\ origin[i][3] = origin[j][3]
        /\ products[i] = products[j]

\* C4: a node whose extraction raises (a stale handle) leaves products as it
\* was, and the loop goes on with the next node or the next page.
C4_NodeSkipped ==
    [][(pc = "item" /\ items[pos].stale) =>
            /\ products' = products
            /\ origin' = origin
            /\ skipped' = Append(skipped, <<page, pos, items[pos]>>)
            /\ raised' = raised
            /\ pos' = pos + 1
            /\ pc' = IF pos < Len(items) THEN "item" ELSE LoopPc(page + 1)
            /\ page' = IF pos < Len(items) THEN page ELSE page + 1]_vars

C4_Witness ==
    \E s \in 1..Len(skipped) :
        /\ skipped[s][3].stale
        /\ \E i \in 1..Len(origin) :
              origin[i][1] = skipped[s][1] /\ origin[i][2] > skipped[s][2]
        /\ \E i \in 1..Len(origin) : origin[i][1] > skipped[s][1]

\* C5: with a session created, a run that has ended has reached save_to_csv,
\* and the csv holds every extracted record unless the write itself failed.
C5_FailureContained ==
    (pc = "done" /\ driver # "none") =>
        /\ sinkCalls = 1
        /\ (products # <<>> /\ csv.state # "failed") =>
              csv = [state |-> "written",
                     rows |-> [i \in 1..Len(products) |-> CsvRow(products[i])]]

\* the steps main can still take, at most: every step lowers it
PageSteps == MaxItems + 3

Rank ==
    CASE pc = "setup" -> Pages * PageSteps + 3
      [] pc = "nav" -> (Pages + 1 - page) * PageSteps + 2
      [] pc = "wait" -> (Pages + 1 - page) * PageSteps + 1
      [] pc = "find" -> (Pages + 1 - page) * PageSteps
      [] pc = "item" -> (Pages + 1 - page) * PageSteps - pos
      [] pc = "save" -> 2
      [] pc = "finally" -> 1
      [] OTHER -> 0

\* C6: a created session is closed once, by the last step of the run, after
\* get_products and save_to_csv have ended, and no run ends with it open;
\* before its end the run always has a next step, every step brings the end
\* nearer, the end is reached through the finally clause only, and the finally
\* clause closes the session.
C6_SessionClosed ==
    /\ [](/\ quitCalls <= 1
          /\ driver = "closed" => pc = "done" /\ quitCalls = 1
          /\ pc = "done" => driver # "open"
          /\ pc = "item" => pos \in 1..Len(items)
          /\ pc \notin {"item", "done"} => ENABLED Next
          /\ Rank >= 0)
    /\ [][/\ Rank' < Rank
          /\ pc' = "done" => pc = "finally"
          /\ (pc = "finally" /\ driver = "open") =>
                driver' = "closed" /\ quitCalls' = 1]_vars

C6_Witness ==
    /\ pc = "done"
    /\ driver = "closed"
    /\ raised
    /\ products # <<>>

\* C7 as stated: download_image is called once for a node exactly when the
\* node's image source is present, and never otherwise.
C7_FetchIffSource ==
    \A t \in Processed :
        /\ Cardinality(CallsOf(t[1], t[2])) = IF ImageAbsent(t[3]) THEN 0 ELSE 1
        /\ ImageAbsent(t[3]) =>
              \A k \in RecordsOf(t[1], t[2]) : products[k].image_filename = NA

\* C7: download_image is called once for a node exactly when the node's image
\* source is present and the node yields a record; a record of a node without
\* an image source has image_filename "N/A".
C7_FetchIffSourceAndRecord ==
    \A t \in Processed :
        /\ Cardinality(CallsOf(t[1], t[2])) =
              IF ~ImageAbsent(t[3]) /\ RecordsOf(t[1], t[2]) # {} THEN 1 ELSE 0
        /\ ImageAbsent(t[3]) =>
              \A k \in RecordsOf(t[1], t[2]) : products[k].image_filename = NA

C7_Witness ==
    \E k \in 1..Len(origin) :
        /\ origin[k][3].img = <<>>
        /\ origin[k][3].title # NoElem
        /\ products[k].image_filename = NA
        /\ calls = <<>>

\* C8: download_image never raises; it returns the cleaned name only for a
\* 200 response whose body was written, and None otherwise; an absent url
\* makes no request; a non-200 response creates no file.
C8_FetchOutcome ==
    \A k \in 1..Len(calls) :
        LET c == calls[k].c
        IN  /\ ~c.exc
            /\ c.ret # None =>
                  /\ Truthy(c.url) /\ c.h = "ok"
                  /\ c.ret = CleanFilename(c.name) \o Jpg
                  /\ c.ret \in files
            /\ ~Truthy(c.url) => c.ret = None /\ c.net = 0 /\ c.created = {}
            /\ c.h # "ok" => c.ret = None
            /\ c.h \in {"non200", "error"} => c.created = {}

C8_Witness ==
    \E j, k \in 1..Len(calls) :
        /\ calls[j].c.h = "non200" /\ Truthy(calls[j].c.url)
        /\ calls[j].c.ret = None /\ files = {}
        /\ calls[k].c.url = None /\ calls[k].c.net = 0

\* C9: a record's price is "N/A" exactly when the whole or the fraction
\* element is absent, and "$" whole "." fraction otherwise.
C9_PriceWholeAndFraction ==
    \A k \in 1..Len(products) :
        LET n == origin[k][3]
        IN  /\ products[k].price = NA <=> (n.whole = NoElem \/ n.frac = NoElem)
            /\ products[k].price # NA =>
                  products[k].price = <<"$">> \o n.whole \o <<".">> \o n.frac

C9_Witness ==
    \E k \in 1..Len(products) :
        /\ origin[k][3].whole # NoElem
        /\ origin[k][3].frac = NoElem
        /\ products[k].price = NA

\* the number written after the last "_" of a name, or -1
DigitValue(c) == IF \E d \in 1..10 : Digits[d] = c
                 THEN (CHOOSE d \in 1..10 : Digits[d] = c) - 1 ELSE -1

RECURSIVE Number(_)
Number(s) == IF s = <<>> THEN -1
             ELSE IF DigitValue(s[Len(s)]) < 0 THEN -1
             ELSE IF Len(s) = 1 THEN DigitValue(s[1])
             ELSE IF Number(SubSeq(s, 1, Len(s) - 1)) < 0 THEN -1
             ELSE 10 * Number(SubSeq(s, 1, Len(s) - 1)) + DigitValue(s[Len(s)])

IndexOf(name) ==
    LET us == {i \in 1..Len(name) : name[i] = "_"}
    IN  IF us = {} THEN -1
        ELSE Number(SubSeq(name, (CHOOSE i \in us : \A j \in us : j <= i) + 1, Len(name)))

Stored(rec) == rec.image_filename # NA /\ rec.image_filename # None

\* C10: each download_image call carries the number of records appended so
\* far, its record is appended before the next call, so the indexes grow,
\* stored image filenames are pairwise distinct and no call writes a file an
\* earlier call of the run created.
C10_SequenceIndex ==
    /\ \A k \in 1..Len(calls) :
          LET c == calls[k].c
          IN  /\ IndexOf(c.name) = c.at
              /\ c.at < Len(products)
              /\ origin[c.at + 1][1] = calls[k].page
              /\ origin[c.at + 1][2] = calls[k].pos
              /\ products[c.at + 1].image_filename = c.ret
    /\ \A j, k \in 1..Len(calls) :
          j < k => /\ IndexOf(calls[j].c.name) < IndexOf(calls[k].c.name)
                   /\ calls[j].c.created \cap calls[k].c.created = {}
    /\ \A i, j \in 1..Len(products) :
          (i # j /\ Stored(products[i]) /\ Stored(products[j])) =>
              products[i].image_filename # products[j].image_filename

C10_Witness ==
    \E i, j \in 1..Len(products) :
        /\ i < j
        /\ origin[i][1] < origin[j][1]
        /\ origin[i][3] = origin[j][3]
        /\ Stored(products[i]) /\ Stored(products[j])
        /\ Cardinality(files) = 2

====
